---- MODULE Spec2Model ----
(***************************************************************************)
(* Arcane: patch validation (validator.py) and the retry orchestration of  *)
(* ArcaneAgent.run_fix (agent.py) and BaseBaselineAgent.run_fix            *)
(* (baselines.py).                                                         *)
(*                                                                         *)
(* Python str values are sequences of one-character strings, so slicing,   *)
(* substring tests and truthiness are computed as Python computes them.    *)
(***************************************************************************)
EXTENDS Integers, Sequences, FiniteSets, TLC

----------------------------------------------------------------------------
(* Values *)

\* Python None (distinct from every str, the empty one included)
None == <<"None">>

\* Path.exists() is False for the path
NoFile == <<"NoFile">>

PASS == "PASS"
FAIL_COMPILE == "FAIL_COMPILE"
FAIL_TEST == "FAIL_TEST"
FAIL_TIMEOUT == "FAIL_TIMEOUT"
FAIL_ERROR == "FAIL_ERROR"
FAIL_LOAD == "FAIL_LOAD"
FAIL_PLAN == "FAIL_PLAN"

\* validator.py:14-18
ValidatorStatuses == {PASS, FAIL_COMPILE, FAIL_TEST, FAIL_TIMEOUT, FAIL_ERROR}

MAX_RETRIES == 3

\* full_error[-1500:]
EXCERPT_LEN == 1500

\* Longest stdout the test process prints in the model
MaxOut == 2

MSG_NOT_FOUND == <<"B", "u", "g", " ", "f", "i", "l", "e", " ", "n", "o", "t", " ", "f", "o", "u", "n", "d">>

MSG_COMPILE == <<"G", "r", "a", "d", "l", "e", " ", "b", "u", "i", "l", "d", " ", "f", "a", "i", "l", "e", "d", ".", " ", "P", "a", "t", "c", "h", " ", "l", "i", "k", "e", "l", "y", " ", "h", "a", "s", " ", "a", " ", "s", "y", "n", "t", "a", "x", " ", "e", "r", "r", "o", "r", ".">>

MSG_TIMEOUT == <<"T", "e", "s", "t", " ", "r", "u", "n", " ", "e", "x", "c", "e", "e", "d", "e", "d", " ", "6", "0", "-", "s", "e", "c", "o", "n", "d", " ", "t", "i", "m", "e", "o", "u", "t", " ", "(", "p", "o", "t", "e", "n", "t", "i", "a", "l", " ", "i", "n", "f", "i", "n", "i", "t", "e", " ", "l", "o", "o", "p", ")", ".">>

MSG_NO_PATCH == <<"N", "o", " ", "p", "a", "t", "c", "h", " ", "g", "e", "n", "e", "r", "a", "t", "e", "d", " ", "y", "e", "t", ".">>

STDOUT_HDR == <<"S", "T", "D", "O", "U", "T", ":", "\n">>

STDERR_HDR == <<"\n", "\n", "S", "T", "D", "E", "R", "R", ":", "\n">>

OK_MARKER == <<"O", "K">>

NA == <<"N", "/", "A">>

----------------------------------------------------------------------------
(* Inputs from the environment *)

\* Content of the buggy source file
OrigCode == <<"b", "u", "g">>

\* Patch texts the planner can produce
PatchTexts == {<<"f", "1">>, <<"f", "2">>}

\* The patch an earlier, killed run left in the bug file
StalePatch == <<"f", "0">>

\* What run_plan / run_retry_plan / _get_patch can return: None, "" or a patch
PlannerReturns == {None, <<>>} \cup PatchTexts

\* What run_analysis can return: None or a metrics mapping
AnalysisReturns == {None, <<"m">>}

\* An exception text one character longer than the excerpt length
LongMessage == [i \in 1..(EXCERPT_LEN + 1) |-> "x"]

\* str(e) of an exception raised by a file or process operation
ExcMessages == {<<"I", "O">>, LongMessage}

\* process.returncode
ExitCodes == {0, 1}

RECURSIVE SeqsUpTo(_, _)
SeqsUpTo(S, n) ==
    IF n = 0 THEN {<<>>}
    ELSE LET shorter == SeqsUpTo(S, n - 1)
         IN  shorter \cup {Append(s, c) : s \in shorter, c \in S}

\* stdout of the JUnit process
Stdouts == SeqsUpTo({"O", "K"}, MaxOut)

\* stderr of the JUnit process
Stderrs == {<<"E">>}

Agents == {"ArcaneAgent", "BaselineAware", "BaselineNaive"}

\* The thread of run_evaluation, and a second caller of run_validation
MainThread == "main"

Threads == {"main", "other"}

----------------------------------------------------------------------------
(* Pure helpers *)

\* Mutant: `is None` in place of truthiness, so "" counts as a patch
TruthyNotNone(x) == x # None

\* Python truthiness of an Optional[str]: `not x` is True for None and ""
Truthy(x) == x # None /\ x # <<>>

\* s[-n:]
LastN(s, n) == IF Len(s) <= n THEN s ELSE SubSeq(s, Len(s) - n + 1, Len(s))

\* sub in s
Contains(sub, s) ==
    \E i \in 0..(Len(s) - Len(sub)) : SubSeq(s, i + 1, i + Len(sub)) = sub

\* Contents a file can be left with when a write of s is cut short
Prefixes(s) == {SubSeq(s, 1, k) : k \in 0..(Len(s) - 1)}

\* Mutant: the result of the build is not looked at
compile_with_gradle_ignored(returncode) == TRUE

\* compile_with_gradle: subprocess.run(check=True) raises CalledProcessError
\* on a nonzero exit, which is mapped to False
compile_with_gradle(returncode) == returncode = 0

\* Mutant: a failed test run is reported without an excerpt
TestResultNoExcerpt(returncode, stdout, stderr) ==
    IF returncode = 0 /\ Contains(OK_MARKER, stdout)
    THEN <<PASS, None>>
    ELSE <<FAIL_TEST, None>>

\* Mutant: the exit code alone decides
TestResultWrong(returncode, stdout, stderr) ==
    IF returncode = 0
    THEN <<PASS, None>>
    ELSE <<FAIL_TEST, LastN(STDOUT_HDR \o stdout \o STDERR_HDR \o stderr, EXCERPT_LEN)>>

\* _run_java_test, the branch after communicate() returned
TestResult(returncode, stdout, stderr) ==
    IF returncode = 0 /\ Contains(OK_MARKER, stdout)
    THEN <<PASS, None>>
    ELSE <<FAIL_TEST, LastN(STDOUT_HDR \o stdout \o STDERR_HDR \o stderr, EXCERPT_LEN)>>

----------------------------------------------------------------------------
(* State *)

VARIABLES
    target,             \* content of the bug file (original_file), or NoFile
    backup,             \* content of original_file.with_suffix(".java.bak"), or NoFile
    v,                  \* per thread: the frame of its run_validation call
    agent,              \* agent.agent_name of the run_fix call
    pc,                 \* position of the run_fix call
    attempt,            \* loop variable of `for attempt in range(MAX_RETRIES)`
    original_code,
    metrics_dict,
    final_metrics_dict,
    current_patch,
    validation_status,
    error_message,
    result,             \* the dictionary run_fix returned
    attemptLog,         \* history: outcome of each attempt so far, in order
    planCount,          \* history: planner calls made, per value of `attempt`
    valCount,           \* history: run_validation calls made, per value of `attempt`
    nAnalysis,          \* history: run_analysis calls made
    lastPlan,           \* history: arguments and return of the latest planner call,
                        \* kept until the validation of its patch returns
    lastValError,       \* history: excerpt the latest run_validation returned to run_fix
    lastValPatch,       \* history: patch_code of that run_validation call
    passPatch,          \* history: patch_code of the run_validation that returned PASS
    fsTouched,          \* history: some file was created, written or moved
    loadFailed,         \* history: bug_path.read_text raised
    results_file,       \* run_evaluation: results.csv, whether it exists and its rows
    processed_bugs,     \* run_evaluation: (agent, algorithm) pairs found in results.csv
    tasks_to_run,       \* run_evaluation: the tasks left after filtering
    task,               \* run_evaluation: position of the main loop in tasks_to_run
    dpc,                \* run_evaluation: statement reached
    task_result,        \* run_evaluation: `result`, the row handed to save_result
    runCount,           \* history: run_fix calls started, per pair
    saveCount,          \* history: save_result calls made, per pair
    raisedPairs         \* history: pairs whose run_fix raised

fsVars == <<target, backup>>

agentVars == <<agent, pc, attempt, original_code, metrics_dict, final_metrics_dict,
               current_patch, validation_status, error_message, result>>

histVars == <<attemptLog, planCount, valCount, nAnalysis, lastPlan, passPatch, loadFailed>>

\* The state of run_evaluation
driverVars == <<results_file, processed_bugs, tasks_to_run, task, dpc, task_result,
                runCount, saveCount, raisedPairs>>

\* The state of one run_fix call and of the files it works on
runFixVars == <<target, backup, v, agent, pc, attempt, original_code, metrics_dict,
                final_metrics_dict, current_patch, validation_status, error_message, result,
                attemptLog, planCount, valCount, nAnalysis, lastPlan, lastValError,
                lastValPatch, passPatch, fsTouched, loadFailed>>

vars == <<runFixVars, driverVars>>

\* What the test step observed, kept until run_validation returns
NoObs == [seen |-> FALSE, timedOut |-> FALSE, returncode |-> 0, stdout |-> <<>>]

\* A thread that is not inside run_validation.  entry (the bug file's content
\* when the call was made), copied (the call has made its backup copy),
\* copyFailed (shutil.copy raised), build (what the gradle process did: "none",
\* "ok" for exit code 0, "failed" for another exit code, "raised"), launched
\* (Popen has started the test command) and obs are history fields.
IdleFrame == [pc |-> "idle", patch_code |-> None, status |-> "NONE", error |-> None,
              procs |-> {}, entry |-> NoFile, copied |-> FALSE, copyFailed |-> FALSE,
              build |-> "none", launched |-> FALSE, obs |-> NoObs]

\* run_validation(patch_code, bug_file_path, algorithm_name) has just been called
CallFrame(patch_code) == [IdleFrame EXCEPT !.pc = "check", !.patch_code = patch_code,
                                           !.entry = target]

----------------------------------------------------------------------------
(* run_validation, validator.py:23-61, one action per statement that touches
   the file system or a process.  A raised exception is caught by
   `except Exception` (FAIL_ERROR, str(e)) and control goes to `finally`. *)

Goto(t, where) == [v EXCEPT ![t].pc = where]

Outcome(t, where, status, error) ==
    [v EXCEPT ![t].pc = where, ![t].status = status, ![t].error = error]

\* if not original_file.exists(): return FAIL_ERROR, "Bug file not found"
VCheck(t) ==
    /\ v[t].pc = "check"
    /\ IF target = NoFile
       THEN v' = Outcome(t, "returned", FAIL_ERROR, MSG_NOT_FOUND)
       ELSE v' = Goto(t, "copy")
    /\ UNCHANGED <<driverVars, fsVars, agentVars, histVars, lastValError, lastValPatch, fsTouched>>

\* shutil.copy(original_file, backup_file): copyfile opens the source, then
\* creates or truncates the destination and copies into it; whatever was
\* written when it raises stays on disk
VCopy(t) ==
    /\ v[t].pc = "copy"
    /\ \/ /\ target # NoFile
          /\ backup' = target
          /\ fsTouched' = TRUE
          /\ v' = [v EXCEPT ![t].pc = "write", ![t].copied = TRUE]
       \/ \E m \in ExcMessages :
             \/ /\ v' = [Outcome(t, "finally", FAIL_ERROR, m) EXCEPT ![t].copyFailed = TRUE]
                /\ UNCHANGED <<backup, fsTouched>>
             \/ /\ target # NoFile
                /\ backup' \in Prefixes(target)
                /\ fsTouched' = TRUE
                /\ v' = [Outcome(t, "finally", FAIL_ERROR, m) EXCEPT ![t].copyFailed = TRUE]
    /\ UNCHANGED <<driverVars, target, agentVars, histVars, lastValError, lastValPatch>>

\* with open(original_file, "w") as f: f.write(patch_code)
VWrite(t) ==
    /\ v[t].pc = "write"
    /\ \/ /\ target' = v[t].patch_code
          /\ fsTouched' = TRUE
          /\ v' = Goto(t, "compile")
       \/ \E m \in ExcMessages :
             /\ v' = Outcome(t, "finally", FAIL_ERROR, m)
             /\ \/ UNCHANGED <<target, fsTouched>>
                \/ /\ target' \in Prefixes(v[t].patch_code)
                   /\ fsTouched' = TRUE
    /\ UNCHANGED <<driverVars, backup, agentVars, histVars, lastValError, lastValPatch>>

\* if not compile_with_gradle(benchmark_dir): return FAIL_COMPILE, "..."
VCompile(t) ==
    /\ v[t].pc = "compile"
    /\ \/ \E returncode \in ExitCodes :
             LET built == IF returncode = 0 THEN "ok" ELSE "failed"
             IN  IF compile_with_gradle(returncode)
                 THEN v' = [Goto(t, "test") EXCEPT ![t].build = built]
                 ELSE v' = [Outcome(t, "finally", FAIL_COMPILE, MSG_COMPILE)
                            EXCEPT ![t].build = built]
       \/ \E m \in ExcMessages :
             v' = [Outcome(t, "finally", FAIL_ERROR, m) EXCEPT ![t].build = "raised"]
    /\ UNCHANGED <<driverVars, fsVars, agentVars, histVars, lastValError, lastValPatch, fsTouched>>

\* _run_java_test up to subprocess.Popen: get_java_classpath raising reaches
\* run_validation's handler, Popen raising reaches _run_java_test's own
\* (process is None); both give (FAIL_ERROR, str(e)).  shell=True makes the
\* direct child a shell and the JVM its descendant.
VTestLaunch(t) ==
    /\ v[t].pc = "test"
    /\ \/ v' = [v EXCEPT ![t].pc = "communicate", ![t].procs = {"child", "descendant"},
                          ![t].launched = TRUE]
       \/ \E m \in ExcMessages : v' = Outcome(t, "finally", FAIL_ERROR, m)
    /\ UNCHANGED <<driverVars, fsVars, agentVars, histVars, lastValError, lastValPatch, fsTouched>>

\* process.communicate(timeout=60) and what follows it in _run_java_test
VCommunicate(t) ==
    /\ v[t].pc = "communicate"
    /\ \/ \E returncode \in ExitCodes, stdout \in Stdouts, stderr \in Stderrs :
             LET r == TestResult(returncode, stdout, stderr)
             IN  v' = [v EXCEPT ![t].pc = "finally", ![t].status = r[1], ![t].error = r[2],
                                ![t].procs = {},
                                ![t].obs = [seen |-> TRUE, timedOut |-> FALSE,
                                            returncode |-> returncode, stdout |-> stdout]]
       \* subprocess.TimeoutExpired: taskkill /F /T ends the tree; when taskkill
       \* fails, process.kill() ends the direct child only.  The exit code and
       \* the output of the killed process are not looked at.
       \/ \E killed \in BOOLEAN, returncode \in ExitCodes, stdout \in Stdouts :
             v' = [v EXCEPT ![t].pc = "finally", ![t].status = FAIL_TIMEOUT,
                            ![t].error = MSG_TIMEOUT,
                            ![t].procs = IF killed THEN {} ELSE @ \ {"child"},
                            ![t].obs = [seen |-> TRUE, timedOut |-> TRUE,
                                        returncode |-> returncode, stdout |-> stdout]]
       \* any other exception of communicate(): process.kill()
       \/ \E m \in ExcMessages :
             v' = [v EXCEPT ![t].pc = "finally", ![t].status = FAIL_ERROR, ![t].error = m,
                            ![t].procs = @ \ {"child"}]
    /\ UNCHANGED <<driverVars, fsVars, agentVars, histVars, lastValError, lastValPatch, fsTouched>>

\* Mutant: the restore copies the backup over the bug file and leaves the
\* backup file in place
VFinallyCopyBack(t) ==
    /\ v[t].pc = "finally"
    /\ IF backup = NoFile
       THEN /\ v' = [v EXCEPT ![t].pc = "returned", ![t].obs = NoObs]
            /\ UNCHANGED <<fsVars, fsTouched>>
       ELSE \/ /\ target' = backup
               /\ fsTouched' = TRUE
               /\ v' = [v EXCEPT ![t].pc = "returned", ![t].obs = NoObs]
               /\ UNCHANGED backup
            \/ /\ v' = [v EXCEPT ![t].pc = "raised", ![t].obs = NoObs]
               /\ UNCHANGED <<fsVars, fsTouched>>
    /\ UNCHANGED <<driverVars, agentVars, histVars, lastValError, lastValPatch>>

\* finally: if backup_file.exists(): shutil.move(backup_file, original_file).
\* An exception of shutil.move leaves the finally block and replaces the
\* pending return.
VFinally(t) ==
    /\ v[t].pc = "finally"
    /\ IF backup = NoFile
       THEN /\ v' = [v EXCEPT ![t].pc = "returned", ![t].obs = NoObs]
            /\ UNCHANGED <<fsVars, fsTouched>>
       ELSE \/ /\ target' = backup
               /\ backup' = NoFile
               /\ fsTouched' = TRUE
               /\ v' = [v EXCEPT ![t].pc = "returned", ![t].obs = NoObs]
            \/ /\ v' = [v EXCEPT ![t].pc = "raised", ![t].obs = NoObs]
               /\ \/ UNCHANGED <<fsVars, fsTouched>>
                  \/ /\ target' = backup
                     /\ fsTouched' = TRUE
                     /\ UNCHANGED backup
    /\ UNCHANGED <<driverVars, agentVars, histVars, lastValError, lastValPatch>>

run_validation(t) ==
    \/ VCheck(t)
    \/ VCopy(t)
    \/ VWrite(t)
    \/ VCompile(t)
    \/ VTestLaunch(t)
    \/ VCommunicate(t)
    \/ VFinally(t)

----------------------------------------------------------------------------
(* run_fix: ArcaneAgent (agent.py:33-109) and BaseBaselineAgent
   (baselines.py:30-59) *)

\* _create_result of both classes; the baselines pass no metrics
_create_result(agent_name, status, before_metrics, after_metrics, patch, error) ==
    [agent |-> agent_name, status |-> status, patch |-> patch,
     metrics_before |-> before_metrics, metrics_after |-> after_metrics,
     error_message |-> error]

NoResult == _create_result("", "NONE", None, None, None, None)

NoPlan == [attempt |-> -1, fn |-> "", code |-> None, metrics_json |-> None,
           failed_patch |-> None, error_message |-> None, ret |-> None]

\* metrics_json = str(metrics_dict) if metrics_dict else "N/A"
MetricsJson(m) == IF Truthy(m) THEN m ELSE NA

\* run_plan(original_code, metrics_json, self.config)
PlanArgs(code, metrics) ==
    [NoPlan EXCEPT !.attempt = 0, !.fn = "run_plan", !.code = code,
                   !.metrics_json = MetricsJson(metrics)]

\* Mutant: the retry planner is called without the stored error
RetryPlanArgsNoError(i, code, failed_patch, error) ==
    [NoPlan EXCEPT !.attempt = i, !.fn = "run_retry_plan", !.code = code,
                   !.failed_patch = failed_patch, !.error_message = MSG_NO_PATCH]

\* run_retry_plan(original_code, current_patch, error_message, self.config)
RetryPlanArgs(i, code, failed_patch, error) ==
    [NoPlan EXCEPT !.attempt = i, !.fn = "run_retry_plan", !.code = code,
                   !.failed_patch = failed_patch, !.error_message = error]

\* Mutant: range(MAX_RETRIES + 1)
NextIterationOneMore(i) == IF i < MAX_RETRIES THEN "plan" ELSE "after_loop"

\* `for attempt in range(MAX_RETRIES)`: where control goes at the end of an
\* iteration
NextIteration(i) == IF i + 1 < MAX_RETRIES THEN "plan" ELSE "after_loop"

\* Mutant: `break` in place of `continue`
AfterPlanFailureBreak(i) == "after_loop"

\* if not current_patch: ...; continue
AfterPlanFailure(i) == NextIteration(i)

\* Mutant: FAIL_ERROR leaves the loop as PASS does
AfterValidationStopOnError(status, i) ==
    IF status \in {PASS, FAIL_ERROR} THEN "after_loop" ELSE NextIteration(i)

\* Mutant: the `break` on PASS is missing
AfterValidationNoBreak(status, i) == NextIteration(i)

\* if status == PASS: break
AfterValidation(status, i) == IF status = PASS THEN "after_loop" ELSE NextIteration(i)

\* Mutant: the latest patch is returned whatever the status
ResultPatchAlways(status, patch) == patch

\* current_patch if validation_status == PASS else None
ResultPatch(status, patch) == IF status = PASS THEN patch ELSE None

\* patch_code if validation_status == PASS else None
BaselineResultPatch(status, patch) == IF status = PASS THEN patch ELSE None

\* Mutant: the `return` of the handler is missing
AfterLoadFailureFallThrough(agent_name) ==
    IF agent_name = "ArcaneAgent" THEN "analyze" ELSE "get_patch"

\* except Exception: return self._create_result(algorithm_name, "FAIL_LOAD", ...)
AfterLoadFailure(agent_name) == "done"

\* original_code = bug_path.read_text(encoding="utf-8")
Load ==
    /\ pc = "load"
    /\ \/ /\ target # NoFile
          /\ original_code' = target
          /\ pc' = IF agent = "ArcaneAgent" THEN "analyze" ELSE "get_patch"
          /\ UNCHANGED <<result, loadFailed>>
       \/ /\ loadFailed' = TRUE
          /\ result' = _create_result(agent, FAIL_LOAD, None, None, None, None)
          /\ pc' = AfterLoadFailure(agent)
          /\ UNCHANGED original_code
    /\ UNCHANGED <<driverVars, fsVars, v, agent, attempt, metrics_dict, final_metrics_dict,
                   current_patch, validation_status, error_message, attemptLog,
                   planCount, valCount, nAnalysis, lastPlan, lastValError, lastValPatch, passPatch,
                   fsTouched>>

\* metrics_dict = run_analysis(...), then the three assignments before the loop
Analyze ==
    /\ pc = "analyze"
    /\ \E m \in AnalysisReturns : metrics_dict' = m
    /\ nAnalysis' = nAnalysis + 1
    /\ current_patch' = None
    /\ validation_status' = FAIL_PLAN
    /\ error_message' = MSG_NO_PATCH
    /\ attempt' = 0
    /\ pc' = "plan"
    /\ UNCHANGED <<driverVars, fsVars, v, agent, original_code, final_metrics_dict, result,
                   attemptLog, planCount, valCount, lastPlan, lastValError, lastValPatch, passPatch,
                   fsTouched, loadFailed>>

\* One iteration up to the call of run_validation: the planner call, and the
\* `if not current_patch` branch.  planning.py defines run_retry_plan, so the
\* `if not run_retry_plan: break` guard never breaks.
Plan ==
    /\ pc = "plan"
    /\ \E ret \in PlannerReturns :
          /\ lastPlan' = [(IF attempt = 0
                           THEN PlanArgs(original_code, metrics_dict)
                           ELSE RetryPlanArgs(attempt, original_code, current_patch,
                                              error_message))
                          EXCEPT !.ret = ret]
          /\ planCount' = [planCount EXCEPT ![attempt] = @ + 1]
          /\ current_patch' = ret
          /\ IF ~Truthy(ret)
             THEN /\ validation_status' = FAIL_PLAN
                  /\ attemptLog' = Append(attemptLog, FAIL_PLAN)
                  /\ pc' = AfterPlanFailure(attempt)
                  /\ attempt' = IF pc' = "plan" THEN attempt + 1 ELSE attempt
                  /\ UNCHANGED <<v, valCount>>
             ELSE /\ v' = [v EXCEPT ![MainThread] = CallFrame(ret)]
                  /\ valCount' = [valCount EXCEPT ![attempt] = @ + 1]
                  /\ pc' = "validating"
                  /\ UNCHANGED <<validation_status, attemptLog, attempt>>
    /\ UNCHANGED <<driverVars, fsVars, agent, original_code, metrics_dict, final_metrics_dict,
                   error_message, result, nAnalysis, lastValError, lastValPatch, passPatch,
                   fsTouched, loadFailed>>

\* Mutant: the excerpt of the first failed validation is kept, later ones
\* are dropped
ValidationReturnFirstError ==
    /\ pc = "validating"
    /\ v[MainThread].pc = "returned"
    /\ validation_status' = v[MainThread].status
    /\ error_message' = IF error_message = MSG_NO_PATCH THEN v[MainThread].error
                        ELSE error_message
    /\ attemptLog' = Append(attemptLog, v[MainThread].status)
    /\ passPatch' = IF v[MainThread].status = PASS THEN v[MainThread].patch_code
                    ELSE passPatch
    /\ pc' = AfterValidation(v[MainThread].status, attempt)
    /\ attempt' = IF pc' = "plan" THEN attempt + 1 ELSE attempt
    /\ v' = [v EXCEPT ![MainThread] = IdleFrame]
    /\ lastPlan' = NoPlan
    /\ lastValError' = v[MainThread].error
    /\ lastValPatch' = v[MainThread].patch_code
    /\ UNCHANGED <<driverVars, fsVars, agent, original_code, metrics_dict, final_metrics_dict,
                   current_patch, result, planCount, valCount, nAnalysis, fsTouched,
                   loadFailed>>

\* status, error = run_validation(...); validation_status = status;
\* error_message = error; if status == PASS: break
ValidationReturn ==
    /\ pc = "validating"
    /\ v[MainThread].pc = "returned"
    /\ validation_status' = v[MainThread].status
    /\ error_message' = v[MainThread].error
    /\ attemptLog' = Append(attemptLog, v[MainThread].status)
    /\ passPatch' = IF v[MainThread].status = PASS THEN v[MainThread].patch_code
                    ELSE passPatch
    /\ pc' = AfterValidation(v[MainThread].status, attempt)
    /\ attempt' = IF pc' = "plan" THEN attempt + 1 ELSE attempt
    /\ v' = [v EXCEPT ![MainThread] = IdleFrame]
    /\ lastPlan' = NoPlan
    /\ lastValError' = v[MainThread].error
    /\ lastValPatch' = v[MainThread].patch_code
    /\ UNCHANGED <<driverVars, fsVars, agent, original_code, metrics_dict, final_metrics_dict,
                   current_patch, result, planCount, valCount, nAnalysis, fsTouched,
                   loadFailed>>

\* run_fix has no handler around run_validation: an exception leaves run_fix
ValidationRaised ==
    /\ pc \in {"validating", "validating_baseline"}
    /\ v[MainThread].pc = "raised"
    /\ pc' = "raised"
    /\ v' = [v EXCEPT ![MainThread] = IdleFrame]
    /\ UNCHANGED <<driverVars, fsVars, agent, attempt, original_code, metrics_dict,
                   final_metrics_dict, current_patch, validation_status, error_message,
                   result, histVars, lastValError, lastValPatch, fsTouched>>

\* Mutant: the final analysis runs whatever the status
FinalAnalysisAlways ==
    /\ pc = "after_loop"
    /\ \E m \in AnalysisReturns : final_metrics_dict' = m
    /\ nAnalysis' = nAnalysis + 1
    /\ pc' = "return"
    /\ UNCHANGED <<driverVars, fsVars, v, agent, attempt, original_code, metrics_dict,
                   current_patch,
                   validation_status, error_message, result, attemptLog, planCount,
                   valCount, lastPlan, lastValError, lastValPatch, passPatch, fsTouched,
                   loadFailed>>

\* if validation_status == PASS: final_metrics_dict = run_analysis(...)
FinalAnalysis ==
    /\ pc = "after_loop"
    /\ IF validation_status = PASS
       THEN /\ \E m \in AnalysisReturns : final_metrics_dict' = m
            /\ nAnalysis' = nAnalysis + 1
       ELSE /\ final_metrics_dict' = None
            /\ UNCHANGED nAnalysis
    /\ pc' = "return"
    /\ UNCHANGED <<driverVars, fsVars, v, agent, attempt, original_code, metrics_dict,
                   current_patch,
                   validation_status, error_message, result, attemptLog, planCount,
                   valCount, lastPlan, lastValError, lastValPatch, passPatch, fsTouched,
                   loadFailed>>

\* return self._create_result(...)
Return ==
    /\ pc = "return"
    /\ result' = _create_result(agent, validation_status, metrics_dict,
                                final_metrics_dict,
                                ResultPatch(validation_status, current_patch),
                                error_message)
    /\ pc' = "done"
    /\ UNCHANGED <<driverVars, fsVars, v, agent, attempt, original_code, metrics_dict,
                   final_metrics_dict, current_patch, validation_status, error_message,
                   histVars, lastValError, lastValPatch, fsTouched>>

\* patch_code = self._get_patch(original_code), and the `if not patch_code`
\* branch
GetPatch ==
    /\ pc = "get_patch"
    /\ \E ret \in PlannerReturns :
          /\ lastPlan' = [NoPlan EXCEPT !.attempt = 0, !.fn = "_get_patch",
                                        !.code = original_code, !.ret = ret]
          /\ planCount' = [planCount EXCEPT ![0] = @ + 1]
          /\ current_patch' = ret
          /\ IF ~Truthy(ret)
             THEN /\ result' = _create_result(agent, FAIL_PLAN, None, None, None, None)
                  /\ attemptLog' = Append(attemptLog, FAIL_PLAN)
                  /\ pc' = "done"
                  /\ UNCHANGED <<v, valCount>>
             ELSE /\ v' = [v EXCEPT ![MainThread] = CallFrame(ret)]
                  /\ valCount' = [valCount EXCEPT ![0] = @ + 1]
                  /\ pc' = "validating_baseline"
                  /\ UNCHANGED <<result, attemptLog>>
    /\ UNCHANGED <<driverVars, fsVars, agent, attempt, original_code, metrics_dict,
                   final_metrics_dict, validation_status, error_message, nAnalysis,
                   lastValError, lastValPatch, passPatch, fsTouched, loadFailed>>

\* Mutant: a failed validation sends the baseline back to patch generation
BaselineReturnRetry ==
    /\ pc = "validating_baseline"
    /\ v[MainThread].pc = "returned"
    /\ validation_status' = v[MainThread].status
    /\ error_message' = IF v[MainThread].status = PASS THEN None ELSE v[MainThread].error
    /\ attemptLog' = Append(attemptLog, v[MainThread].status)
    /\ passPatch' = IF v[MainThread].status = PASS THEN v[MainThread].patch_code
                    ELSE passPatch
    /\ result' = _create_result(agent, validation_status', None, None,
                                BaselineResultPatch(validation_status', current_patch),
                                error_message')
    /\ pc' = IF v[MainThread].status = PASS THEN "done" ELSE "get_patch"
    /\ v' = [v EXCEPT ![MainThread] = IdleFrame]
    /\ lastPlan' = NoPlan
    /\ lastValError' = v[MainThread].error
    /\ lastValPatch' = v[MainThread].patch_code
    /\ UNCHANGED <<driverVars, fsVars, agent, attempt, original_code, metrics_dict,
                   final_metrics_dict, current_patch, planCount, valCount, nAnalysis,
                   fsTouched, loadFailed>>

\* validation_status, error_message = run_validation(...);
\* if validation_status == PASS: error_message = None; return ...
BaselineReturn ==
    /\ pc = "validating_baseline"
    /\ v[MainThread].pc = "returned"
    /\ validation_status' = v[MainThread].status
    /\ error_message' = IF v[MainThread].status = PASS THEN None ELSE v[MainThread].error
    /\ attemptLog' = Append(attemptLog, v[MainThread].status)
    /\ passPatch' = IF v[MainThread].status = PASS THEN v[MainThread].patch_code
                    ELSE passPatch
    /\ result' = _create_result(agent, validation_status', None, None,
                                BaselineResultPatch(validation_status', current_patch),
                                error_message')
    /\ pc' = "done"
    /\ v' = [v EXCEPT ![MainThread] = IdleFrame]
    /\ lastPlan' = NoPlan
    /\ lastValError' = v[MainThread].error
    /\ lastValPatch' = v[MainThread].patch_code
    /\ UNCHANGED <<driverVars, fsVars, agent, attempt, original_code, metrics_dict,
                   final_metrics_dict, current_patch, planCount, valCount, nAnalysis,
                   fsTouched, loadFailed>>

----------------------------------------------------------------------------
(* run_evaluation, run_evaluation.py:71-163.  run_fix is seen from outside:
   it returns a result dictionary or raises. *)

CRASH == "CRASH"

\* load_benchmark's return: the algorithms that have a test file and a program
all_bugs == <<"bitcount", "gcd">>

\* agents = [ArcaneAgent(cfg), BaselineAware(cfg), BaselineNaive(cfg)]
agents == <<"ArcaneAgent", "BaselineAware", "BaselineNaive">>

\* all_tasks = [... for (algorithm_name, bug_file_path) in all_bugs
\*                  for agent in agents], as (agent_name, algorithm_name)
all_tasks ==
    [i \in 1..(Len(all_bugs) * Len(agents)) |->
        <<agents[((i - 1) % Len(agents)) + 1], all_bugs[((i - 1) \div Len(agents)) + 1]>>]

Pairs == {all_tasks[i] : i \in DOMAIN all_tasks}

\* Statuses of the results run_fix returns in the driver's runs
RunFixStatuses == {PASS, FAIL_TEST}

\* A row of results.csv; the driver reads and writes agent, algorithm, status
Row(agent_name, algorithm_name, status) ==
    [agent |-> agent_name, algorithm |-> algorithm_name, status |-> status]

NoRow == Row("", "", "NONE")

\* results_path.exists() is False
NoResultsFile == [exists |-> FALSE, rows |-> <<>>]

\* results.csv as an earlier run_evaluation left it: not there, or one row
\* for each pair of some set of pairs
PriorFiles ==
    {NoResultsFile} \cup
    {[exists |-> TRUE, rows |-> [i \in 1..Len(done) |-> Row(done[i][1], done[i][2], CRASH)]] :
        done \in {SelectSeq(all_tasks, LAMBDA pair : pair \in S) : S \in SUBSET Pairs}}

\* load_processed_bugs: set(zip(df['agent'], df['algorithm'])), the empty set
\* when the file is missing or empty
load_processed_bugs(file) ==
    IF ~file.exists THEN {}
    ELSE {<<file.rows[i].agent, file.rows[i].algorithm>> : i \in DOMAIN file.rows}

\* Mutant: nothing is filtered out
TasksToRunAll(tasks, processed) == tasks

\* tasks_to_run: the tasks whose (agent.agent_name, algorithm_name) is not in
\* processed_bugs, in the order of all_tasks
TasksToRun(tasks, processed) == SelectSeq(tasks, LAMBDA pair : pair \notin processed)

\* processed_bugs = load_processed_bugs(results_path); a missing file is
\* created with the header only
DLoad ==
    /\ dpc = "load"
    /\ processed_bugs' = load_processed_bugs(results_file)
    /\ results_file' = [results_file EXCEPT !.exists = TRUE]
    /\ dpc' = "filter"
    /\ UNCHANGED <<runFixVars, tasks_to_run, task, task_result, runCount, saveCount,
                   raisedPairs>>

\* Build all_tasks and filter out the tasks already processed
DFilter ==
    /\ dpc = "filter"
    /\ tasks_to_run' = TasksToRun(all_tasks, processed_bugs)
    /\ task' = 1
    /\ dpc' = "loop"
    /\ UNCHANGED <<runFixVars, results_file, processed_bugs, task_result, runCount,
                   saveCount, raisedPairs>>

\* for ... in tqdm(tasks_to_run): the call of agent.run_fix, or the end of
\* the loop
DCall ==
    /\ dpc = "loop"
    /\ IF task <= Len(tasks_to_run)
       THEN /\ runCount' = [runCount EXCEPT ![tasks_to_run[task]] = @ + 1]
            /\ dpc' = "run_fix"
       ELSE /\ dpc' = "complete"
            /\ UNCHANGED runCount
    /\ UNCHANGED <<runFixVars, results_file, processed_bugs, tasks_to_run, task,
                   task_result, saveCount, raisedPairs>>

\* result = agent.run_fix(...), or the handler's result with status CRASH
\* when run_fix raised
DRunFix ==
    /\ dpc = "run_fix"
    /\ LET pair == tasks_to_run[task]
       IN  \/ /\ \E status \in RunFixStatuses :
                    task_result' = Row(pair[1], pair[2], status)
              /\ UNCHANGED raisedPairs
           \/ /\ task_result' = Row(pair[1], pair[2], CRASH)
              /\ raisedPairs' = raisedPairs \cup {pair}
    /\ dpc' = "save"
    /\ UNCHANGED <<runFixVars, results_file, processed_bugs, tasks_to_run, task,
                   runCount, saveCount>>

\* save_result(results_path, result): the row is appended, or to_csv raises
\* and save_result logs the exception and returns
DSave ==
    /\ dpc = "save"
    /\ \/ results_file' = [results_file EXCEPT !.rows = Append(@, task_result)]
       \/ UNCHANGED results_file
    /\ saveCount' = [saveCount EXCEPT ![tasks_to_run[task]] = @ + 1]
    /\ task_result' = NoRow
    /\ task' = task + 1
    /\ dpc' = "loop"
    /\ UNCHANGED <<runFixVars, processed_bugs, tasks_to_run, runCount, raisedPairs>>

----------------------------------------------------------------------------
(* Specifications *)

\* The files when run_fix is called: the bug file, no bug file, or what a run
\* killed while its patch was live left behind (the patch in the bug file,
\* the original in the backup)
InitFiles ==
    \/ target = OrigCode /\ backup = NoFile
    \/ target = NoFile /\ backup = NoFile
    \/ target = StalePatch /\ backup = OrigCode

InitRest ==
    /\ attempt = 0
    /\ original_code = None
    /\ metrics_dict = None
    /\ final_metrics_dict = None
    /\ current_patch = None
    /\ validation_status = "NONE"
    /\ error_message = None
    /\ result = NoResult
    /\ attemptLog = <<>>
    /\ planCount = [i \in 0..MAX_RETRIES |-> 0]
    /\ valCount = [i \in 0..MAX_RETRIES |-> 0]
    /\ nAnalysis = 0
    /\ lastPlan = NoPlan
    /\ lastValError = None
    /\ lastValPatch = None
    /\ passPatch = None
    /\ fsTouched = FALSE
    /\ loadFailed = FALSE

\* run_evaluation is not part of the run: its state stays as it is here
DriverIdle ==
    /\ results_file = NoResultsFile
    /\ processed_bugs = {}
    /\ tasks_to_run = <<>>
    /\ task = 1
    /\ dpc = "idle"
    /\ task_result = NoRow
    /\ runCount = [pair \in Pairs |-> 0]
    /\ saveCount = [pair \in Pairs |-> 0]
    /\ raisedPairs = {}

\* One run_fix call of run_evaluation's loop (run_evaluation.py:143-150)
Init ==
    /\ InitFiles
    /\ agent \in Agents
    /\ pc = "load"
    /\ v = [t \in Threads |-> IdleFrame]
    /\ InitRest
    /\ DriverIdle

Next ==
    \/ Load
    \/ Analyze
    \/ Plan
    \/ ValidationReturn
    \/ ValidationRaised
    \/ FinalAnalysis
    \/ Return
    \/ GetPatch
    \/ BaselineReturn
    \/ run_validation(MainThread)

Spec == Init /\ [][Next]_vars

\* Two threads that have each called run_validation on the same bug file,
\* with different patches
InitConc ==
    /\ target = OrigCode
    /\ backup = NoFile
    /\ agent = "ArcaneAgent"
    /\ pc = "harness"
    /\ \E p \in [Threads -> PatchTexts] :
          /\ \A t1, t2 \in Threads : t1 # t2 => p[t1] # p[t2]
          /\ v = [t \in Threads |-> [IdleFrame EXCEPT !.pc = "check", !.patch_code = p[t],
                                                   !.entry = OrigCode]]
    /\ InitRest
    /\ DriverIdle

NextConc == \E t \in Threads : run_validation(t)

SpecConc == InitConc /\ [][NextConc]_vars

\* One run_evaluation; the run_fix calls are DRunFix steps
InitDriver ==
    /\ target = OrigCode
    /\ backup = NoFile
    /\ agent = ""
    /\ pc = "driver"
    /\ v = [t \in Threads |-> IdleFrame]
    /\ InitRest
    /\ results_file \in PriorFiles
    /\ processed_bugs = {}
    /\ tasks_to_run = <<>>
    /\ task = 1
    /\ dpc = "load"
    /\ task_result = NoRow
    /\ runCount = [pair \in Pairs |-> 0]
    /\ saveCount = [pair \in Pairs |-> 0]
    /\ raisedPairs = {}

NextDriver ==
    \/ DLoad
    \/ DFilter
    \/ DCall
    \/ DRunFix
    \/ DSave

SpecDriver == InitDriver /\ [][NextDriver]_vars

----------------------------------------------------------------------------
(* Properties *)

RECURSIVE SumTo(_, _)
SumTo(f, n) == IF n < 0 THEN 0 ELSE f[n] + SumTo(f, n - 1)

\* Calls made so far in this run_fix
NValidations == SumTo(valCount, MAX_RETRIES)

NPlans == SumTo(planCount, MAX_RETRIES)

\* No planner or validation call was made for a value of `attempt` >= i
NoCallsFrom(i) == \A j \in i..MAX_RETRIES : planCount[j] = 0 /\ valCount[j] = 0

AfterLoop == pc \in {"after_loop", "return", "done"}

\* C1: whenever a run_validation call has returned, the bug file holds the
\* content it held when the call was made, whatever happened in between
\* (copy failed, write failed, build failed, test passed, failed, timed out or
\* could not be launched).
C1_Restoration == \A t \in Threads : v[t].pc = "returned" => target = v[t].entry

\* A call has made its backup copy and its restore has not completed
Live(t) == v[t].copied /\ v[t].pc \notin {"returned", "raised"}

\* C2: two concurrent run_validation calls on one bug file never interleave
\* (never are both between backup and restore), and when both have returned
\* the file holds its original content.
C2_Exclusivity ==
    /\ \A t1, t2 \in Threads : t1 # t2 => ~(Live(t1) /\ Live(t2))
    /\ (\A t \in Threads : v[t].pc = "returned") => target = OrigCode

\* C3: run_fix makes at most MAX_RETRIES run_validation calls and at most one
\* planner call per attempt index; when every planner call returned a patch
\* and every validation returned FAIL_TEST, ArcaneAgent has made exactly
\* MAX_RETRIES (3) validation calls and returns FAIL_TEST.
C3_RetryBound ==
    /\ NValidations <= MAX_RETRIES
    /\ \A i \in 0..MAX_RETRIES : planCount[i] <= 1 /\ valCount[i] <= 1
    /\ NoCallsFrom(MAX_RETRIES)
    /\ (/\ agent = "ArcaneAgent"
        /\ pc = "done"
        /\ ~loadFailed
        /\ \A k \in 1..Len(attemptLog) : attemptLog[k] = FAIL_TEST)
       => (NValidations = 3 /\ result.status = FAIL_TEST)

C3_Witness ==
    /\ agent = "ArcaneAgent"
    /\ pc = "done"
    /\ attemptLog = <<FAIL_TEST, FAIL_TEST, FAIL_TEST>>
    /\ NValidations = 3

\* C4: once a validation returned PASS on attempt k, no planner or validation
\* call is made for a later attempt, and the patch of the returned result is
\* the patch that was validated on attempt k.
C4_EarlySuccess ==
    /\ \A k \in 1..Len(attemptLog) :
          attemptLog[k] = PASS => (k = Len(attemptLog) /\ NoCallsFrom(k) /\ AfterLoop)
    /\ (pc = "done" /\ \E k \in 1..Len(attemptLog) : attemptLog[k] = PASS)
       => (result.status = PASS /\ result.patch = passPatch /\ Truthy(passPatch))

C4_Witness ==
    /\ agent = "ArcaneAgent"
    /\ pc = "done"
    /\ Len(attemptLog) = 2
    /\ attemptLog[1] = FAIL_TEST
    /\ attemptLog[2] = PASS
    /\ result.patch = passPatch
    /\ planCount[2] = 0

\* C5 as claimed: after a planner call returned no patch on an attempt, no
\* further planner or validation call is made.
C5_StopsOnPlannerFailure ==
    \A k \in 1..Len(attemptLog) :
        attemptLog[k] = FAIL_PLAN => (k = Len(attemptLog) /\ NoCallsFrom(k))

\* C5 as amended: a planner call that returned no patch on attempt i is not
\* followed by a validation call for attempt i, and it does not end
\* ArcaneAgent's loop: the loop is left only after a PASS or after the attempt
\* with index MAX_RETRIES - 1.
C5_ContinuesAfterPlannerFailure ==
    /\ \A k \in 1..Len(attemptLog) : attemptLog[k] = FAIL_PLAN => valCount[k - 1] = 0
    /\ (agent = "ArcaneAgent" /\ AfterLoop /\ ~loadFailed)
       => (/\ Len(attemptLog) >= 1
           /\ \/ attemptLog[Len(attemptLog)] = PASS
              \/ Len(attemptLog) = MAX_RETRIES)

C5_Witness ==
    /\ agent = "ArcaneAgent"
    /\ Len(attemptLog) >= 1
    /\ attemptLog[1] = FAIL_PLAN
    /\ planCount[1] = 1
    /\ valCount[0] = 0

\* The latest planner call is a retry call made right after an attempt whose
\* planner call returned no patch, and some earlier attempt was validated
RetryAfterPlanFailure ==
    /\ lastPlan.fn = "run_retry_plan"
    /\ lastPlan.attempt <= Len(attemptLog)
    /\ attemptLog[lastPlan.attempt] = FAIL_PLAN
    /\ \E j \in 1..lastPlan.attempt : attemptLog[j] # FAIL_PLAN

\* C6: an attempt whose planner call returned None or "" is recorded as
\* FAIL_PLAN without a run_validation call, and the retry-planner call of the
\* next attempt receives the excerpt of the latest failed validation.
C6_PlannerFailureShortCircuit ==
    /\ \A k \in 1..Len(attemptLog) : attemptLog[k] = FAIL_PLAN => valCount[k - 1] = 0
    /\ (/\ agent = "ArcaneAgent"
        /\ pc \in {"plan", "after_loop", "return"}
        /\ Len(attemptLog) >= 1
        /\ attemptLog[Len(attemptLog)] = FAIL_PLAN)
       => validation_status = FAIL_PLAN
    /\ (/\ pc = "done"
        /\ Len(attemptLog) >= 1
        /\ attemptLog[Len(attemptLog)] = FAIL_PLAN)
       => result.status = FAIL_PLAN
    /\ RetryAfterPlanFailure
       => (lastPlan.error_message = lastValError /\ lastValError # None)

C6_Witness ==
    /\ RetryAfterPlanFailure
    /\ lastPlan.attempt = 2
    /\ attemptLog[1] = FAIL_TEST
    /\ lastPlan.error_message # MSG_NO_PATCH

\* C7: in every result run_fix returns, of ArcaneAgent and of the baselines,
\* the patch is set exactly when the status is PASS.
C7_PatchIffPass == pc = "done" => (result.patch # None <=> result.status = PASS)

C7_Witness ==
    /\ agent = "ArcaneAgent"
    /\ pc = "done"
    /\ result.status = FAIL_TEST
    /\ Truthy(current_patch)
    /\ result.patch = None
    /\ NValidations = 3

\* C8: in every result run_fix returns, the error message is present exactly
\* when the status is not PASS.
C8_ErrorIffNotPass ==
    pc = "done" => (result.error_message # None <=> result.status # PASS)

\* "OK" occurs in stdout
MarkerInStdout(stdout) ==
    \E i \in 1..(Len(stdout) - 1) : stdout[i] = "O" /\ stdout[i + 1] = "K"

\* C9: the test step gives FAIL_TIMEOUT when the run timed out, whatever the
\* exit code and output; PASS with no excerpt when it did not time out, the
\* exit code is 0 and the marker is in stdout; FAIL_TEST in every other case.
C9_Classification ==
    \A t \in Threads :
        (v[t].pc = "finally" /\ v[t].obs.seen) =>
            LET o == v[t].obs
            IN  IF o.timedOut
                THEN v[t].status = FAIL_TIMEOUT
                ELSE IF o.returncode = 0 /\ MarkerInStdout(o.stdout)
                     THEN v[t].status = PASS /\ v[t].error = None
                     ELSE v[t].status = FAIL_TEST /\ v[t].error # None

C9_Witness ==
    /\ v[MainThread].pc = "finally"
    /\ v[MainThread].obs.seen
    /\ ~v[MainThread].obs.timedOut
    /\ v[MainThread].obs.returncode = 0
    /\ v[MainThread].obs.stdout = <<"K", "O">>
    /\ v[MainThread].status = FAIL_TEST

\* C10: when the bug file cannot be read, run_fix returns FAIL_LOAD and has
\* made no analyzer, planner or run_validation call and no change to a file;
\* a missing bug file cannot be read.
C10_LoadFailure ==
    /\ (target = NoFile /\ pc # "load") => loadFailed
    /\ loadFailed =>
          /\ pc = "done"
          /\ result.status = FAIL_LOAD
          /\ attemptLog = <<>>
          /\ nAnalysis = 0
          /\ NPlans = 0
          /\ NValidations = 0
          /\ v[MainThread].pc = "idle"
          /\ ~fsTouched
    /\ (pc = "done" /\ result.status = FAIL_LOAD) => loadFailed

C10_Witness ==
    /\ loadFailed
    /\ pc = "done"
    /\ target = NoFile
    /\ result.status = FAIL_LOAD

\* C11: within one run_validation call the test command is started only
\* after the build has exited with success; when the build exits with a
\* failure the call gives FAIL_COMPILE and never starts the test command.
C11_CompileBeforeTest ==
    \A t \in Threads :
        /\ (v[t].launched \/ v[t].pc \in {"test", "communicate"}) => v[t].build = "ok"
        /\ v[t].procs # {} => v[t].build = "ok"
        /\ v[t].build = "failed"
           => (/\ v[t].status = FAIL_COMPILE
               /\ v[t].error = MSG_COMPILE
               /\ ~v[t].launched
               /\ v[t].pc \in {"finally", "returned", "raised"})
        /\ v[t].status = FAIL_COMPILE => v[t].build = "failed"

C11_Witness ==
    /\ v[MainThread].pc = "returned"
    /\ v[MainThread].build = "failed"
    /\ v[MainThread].status = FAIL_COMPILE
    /\ ~v[MainThread].launched

\* C12: every error excerpt run_validation gives, whatever the status, is
\* at most EXCERPT_LEN characters long; for a test failure it is the last
\* EXCERPT_LEN characters of the raw output when that is longer.  The same
\* bound then holds for the excerpt handed to the retry planner and for the
\* one stored in the result.
C12_ExcerptBound ==
    /\ \A t \in Threads :
          /\ v[t].error # None => Len(v[t].error) <= EXCERPT_LEN
          /\ (v[t].status = FAIL_TEST /\ v[t].obs.seen)
             => \E stderr \in Stderrs :
                   LET full_error == STDOUT_HDR \o v[t].obs.stdout \o STDERR_HDR \o stderr
                   IN  /\ v[t].error = LastN(full_error, EXCERPT_LEN)
                       /\ Len(full_error) > EXCERPT_LEN
                          => v[t].error = SubSeq(full_error, Len(full_error) - EXCERPT_LEN + 1,
                                                 Len(full_error))
    /\ lastPlan.error_message # None => Len(lastPlan.error_message) <= EXCERPT_LEN
    /\ (result # NoResult /\ result.error_message # None)
       => Len(result.error_message) <= EXCERPT_LEN

\* C13: run_validation never leaves by an exception: a failure of the
\* backup, the overwrite, the build, the test run or the restore ends in a
\* returned (FAIL_ERROR, message) pair, and by then the restore step has run
\* (no backup file is left).
C13_NoPropagation ==
    \A t \in Threads :
        /\ v[t].pc # "raised"
        /\ (v[t].pc = "returned" /\ v[t].status = FAIL_ERROR /\ v[t].entry # NoFile)
           => (v[t].error # None /\ backup = NoFile)

\* C14: whenever the test step has given FAIL_TIMEOUT, no process of the
\* test command's tree is running any more, neither the direct child nor a
\* descendant, also when the tree-kill command failed.
C14_TreeKilledOnTimeout ==
    \A t \in Threads :
        v[t].status = FAIL_TIMEOUT
            => (v[t].launched /\ v[t].error = MSG_TIMEOUT /\ v[t].procs = {})

\* The statements of run_validation between the backup copy and the return
InCall(t) == v[t].pc \in {"copy", "write", "compile", "test", "communicate", "finally"}

C16_RetryArguments ==
    (agent = "ArcaneAgent" /\ lastPlan # NoPlan)
        => /\ lastPlan.code = original_code
           /\ lastPlan.attempt = 0
              => (/\ lastPlan.fn = "run_plan"
                  /\ lastPlan.failed_patch = None
                  /\ lastPlan.error_message = None)
           /\ lastPlan.attempt > 0
              => (/\ lastPlan.fn = "run_retry_plan"
                  /\ Truthy(lastPlan.failed_patch)
                  /\ lastPlan.failed_patch = lastValPatch
                  /\ lastPlan.error_message = lastValError)

\* C17: when ArcaneAgent.run_fix ends without PASS, the status it returns is
\* the outcome of the last attempt executed (FAIL_PLAN included) and the
\* error message it returns is the excerpt of the most recent run_validation
\* call, never an older one; with no validation at all it is the initial
\* message.
C17_FinalStatusAndError ==
    (agent = "ArcaneAgent" /\ pc = "done" /\ ~loadFailed /\ result.status # PASS)
        => /\ Len(attemptLog) >= 1
           /\ result.status = attemptLog[Len(attemptLog)]
           /\ NValidations > 0 => result.error_message = lastValError
           /\ NValidations = 0 => result.error_message = MSG_NO_PATCH

C17_Witness ==
    /\ agent = "ArcaneAgent"
    /\ pc = "done"
    /\ attemptLog = <<FAIL_TEST, FAIL_COMPILE, FAIL_PLAN>>
    /\ result.status = FAIL_PLAN
    /\ result.error_message = MSG_COMPILE

\* C18: in ArcaneAgent.run_fix, every run_validation result other than PASS
\* on an attempt index below MAX_RETRIES - 1 (FAIL_COMPILE, FAIL_TEST,
\* FAIL_TIMEOUT or FAIL_ERROR) has the planner call of the next attempt as
\* its continuation: that call has been made, or it is the next step.
C18_RetryAfterEveryFailure ==
    agent = "ArcaneAgent"
        => \A k \in 1..Len(attemptLog) :
              (k < MAX_RETRIES /\ attemptLog[k] \in ValidatorStatuses \ {PASS})
                  => \/ planCount[k] = 1
                     \/ (pc = "plan" /\ attempt = k /\ Len(attemptLog) = k)

C18_Witness ==
    /\ agent = "ArcaneAgent"
    /\ Len(attemptLog) >= 2
    /\ attemptLog[1] = FAIL_ERROR
    /\ attemptLog[2] = FAIL_TIMEOUT
    /\ planCount[1] = 1
    /\ planCount[2] = 1

C20_AnalyzerCalls ==
    /\ agent # "ArcaneAgent" => nAnalysis = 0
    /\ agent = "ArcaneAgent"
       => /\ (loadFailed \/ pc \in {"load", "analyze"}) => (nAnalysis = 0 /\ NPlans = 0)
          /\ NPlans > 0 => nAnalysis >= 1
          /\ pc \in {"plan", "validating", "after_loop", "raised"} => nAnalysis = 1
          /\ (pc \in {"return", "done"} /\ ~loadFailed)
             => nAnalysis = IF validation_status = PASS THEN 2 ELSE 1
          /\ (nAnalysis = 1 /\ NPlans = 0) => (pc = "plan" /\ attempt = 0)

C20_Witness ==
    /\ agent = "ArcaneAgent"
    /\ pc = "done"
    /\ metrics_dict = None
    /\ result.status = PASS
    /\ nAnalysis = 2
    /\ NPlans = 2

\* C21: an attempt whose planner call gave no patch (None or "") leaves the
\* file system as it was: from that planner call until the next one, no step
\* creates a backup file or writes the target, and no run_validation call (so
\* no build and no test) is started, for ArcaneAgent and the baselines alike.
C21_PlannerFailureFrame ==
    [][(lastPlan' # NoPlan /\ lastPlan'.ret \in {None, <<>>})
          => (/\ target' = target
              /\ backup' = backup
              /\ v'[MainThread] = IdleFrame
              /\ valCount' = valCount
              /\ fsTouched' = fsTouched)]_vars

C21_Witness ==
    /\ agent = "ArcaneAgent"
    /\ lastPlan.attempt = 1
    /\ lastPlan.ret = <<>>
    /\ attemptLog = <<FAIL_TEST, FAIL_PLAN>>
    /\ valCount[1] = 0
    /\ target = original_code
    /\ backup = NoFile

\* The seven outcomes a result of run_fix can carry
Taxonomy == ValidatorStatuses \cup {FAIL_LOAD, FAIL_PLAN}

\* C22: every run_validation call that returns gives one status out of PASS,
\* FAIL_COMPILE, FAIL_TEST, FAIL_TIMEOUT, FAIL_ERROR (never FAIL_LOAD or
\* FAIL_PLAN), with a null excerpt exactly when the status is PASS; every
\* status in a result of run_fix is one of the seven outcomes.
C22_StatusTaxonomy ==
    /\ \A t \in Threads :
          v[t].pc \in {"finally", "returned"}
              => /\ v[t].status \in ValidatorStatuses
                 /\ v[t].status \notin {FAIL_LOAD, FAIL_PLAN}
                 /\ v[t].error = None <=> v[t].status = PASS
    /\ \A k \in 1..Len(attemptLog) : attemptLog[k] \in Taxonomy
    /\ pc = "done" => result.status \in Taxonomy

C22_Witness ==
    /\ v[MainThread].pc = "returned"
    /\ v[MainThread].status = FAIL_TEST
    /\ v[MainThread].error # None
    /\ Len(attemptLog) = 2

\* C23: a run_fix call ends by returning a result, after at most MAX_RETRIES
\* attempts: no attempt beyond the bound is made, and a run that can take no
\* further step (planner, analyzer, build and test steps all return, a
\* hanging test being cut off by the timeout) has returned its result.
C23_Termination ==
    /\ Len(attemptLog) <= MAX_RETRIES
    /\ NValidations <= MAX_RETRIES
    /\ NPlans <= MAX_RETRIES
    /\ ~ENABLED Next => (pc = "done" /\ result # NoResult)

\* C24: when run_fix ends with PASS, the bug file on disk holds the content
\* run_fix read from it at the start, not the accepted patch, both when the
\* final run_analysis call is made and when run_fix returns; the accepted
\* patch is in the returned result only.
C24_OriginalOnDiskAfterPass ==
    /\ (agent = "ArcaneAgent" /\ AfterLoop /\ validation_status = PASS)
       => (target = original_code /\ target # passPatch /\ backup = NoFile)
    /\ (pc = "done" /\ result.status = PASS)
       => (/\ target = original_code
           /\ target # result.patch
           /\ backup # result.patch
           /\ result.patch = passPatch)

\* C25: a baseline agent's run_fix makes one patch-generation call and at
\* most one run_validation call, never a second of either: a read failure
\* gives FAIL_LOAD with no patch-generation call, a missing or empty patch
\* gives FAIL_PLAN with no run_validation call, and otherwise the returned
\* status is the status of the one validation.
C25_BaselineSingleShot ==
    agent \in {"BaselineAware", "BaselineNaive"}
        => /\ NPlans <= 1 /\ NValidations <= 1 /\ NValidations <= NPlans
           /\ NPlans = planCount[0] /\ NValidations = valCount[0]
           /\ Len(attemptLog) <= 1
           /\ loadFailed => (NPlans = 0 /\ NValidations = 0)
           /\ pc = "done"
              => /\ loadFailed <=> result.status = FAIL_LOAD
                 /\ ~loadFailed => NPlans = 1
                 /\ (~loadFailed /\ NValidations = 0) <=> result.status = FAIL_PLAN
                 /\ NValidations = 1
                    => (/\ attemptLog = <<result.status>>
                        /\ result.status \in ValidatorStatuses
                        /\ result.status = validation_status)

C25_Witness ==
    /\ agent = "BaselineNaive"
    /\ pc = "done"
    /\ NPlans = 1
    /\ NValidations = 1
    /\ result.status = FAIL_COMPILE

\* Indices of the rows of results.csv that belong to a pair
RowsOf(pair) ==
    {i \in DOMAIN results_file.rows :
        results_file.rows[i].agent = pair[1] /\ results_file.rows[i].algorithm = pair[2]}

\* Pairs whose run_fix was called and whose save_result call has not been made
InProgress == {pair \in Pairs : runCount[pair] > saveCount[pair]}

\* Pairs found in results.csv are never run, every other pair is run once,
\* and one run_fix at a time
RunOncePerPair ==
    /\ \A pair \in Pairs : runCount[pair] <= 1 /\ saveCount[pair] <= runCount[pair]
    /\ dpc = "load" => \A pair \in Pairs : runCount[pair] = 0
    /\ dpc # "load" => \A pair \in processed_bugs : runCount[pair] = 0
    /\ dpc = "complete" => \A pair \in Pairs \ processed_bugs : runCount[pair] = 1
    /\ Cardinality(InProgress) <= 1
    /\ dpc \in {"run_fix", "save"} <=> InProgress # {}

\* C26 as claimed: in one run_evaluation every pair present in results.csv is
\* never run, every other pair is run exactly once, one after the other (a
\* run_fix starts only when the result of the previous one is saved), and has
\* exactly one saved row, with status CRASH when its run_fix raised.
C26_DriverBookkeeping ==
    /\ RunOncePerPair
    /\ dpc # "load"
       => \A pair \in Pairs \ processed_bugs :
          /\ saveCount[pair] = 1
             => (/\ Cardinality(RowsOf(pair)) = 1
                 /\ \A i \in RowsOf(pair) :
                       results_file.rows[i].status = CRASH <=> pair \in raisedPairs)
          /\ saveCount[pair] = 0 => RowsOf(pair) = {}

\* C26 as the code has it: every pair present in results.csv is never run;
\* every other pair is run exactly once, one after the other (a run_fix
\* starts only after save_result was called for the previous one), and
\* save_result is called exactly once for it, with status CRASH when its
\* run_fix raised; the pair has one row when the append succeeded and no row
\* when it failed.
C26_DriverBookkeepingSaveCalled ==
    /\ RunOncePerPair
    /\ dpc = "complete" => \A pair \in Pairs \ processed_bugs : saveCount[pair] = 1
    /\ dpc = "save"
       => (task_result.status = CRASH <=> tasks_to_run[task] \in raisedPairs)
    /\ dpc # "load"
       => \A pair \in Pairs \ processed_bugs :
          /\ Cardinality(RowsOf(pair)) <= saveCount[pair]
          /\ \A i \in RowsOf(pair) :
                results_file.rows[i].status = CRASH <=> pair \in raisedPairs
    /\ \A pair \in processed_bugs : dpc # "load" => Cardinality(RowsOf(pair)) = 1

C26_Witness ==
    /\ dpc = "complete"
    /\ processed_bugs = {<<"ArcaneAgent", "bitcount">>}
    /\ raisedPairs = {<<"BaselineAware", "gcd">>}
    /\ Cardinality(RowsOf(<<"BaselineAware", "gcd">>)) = 1
    /\ RowsOf(<<"ArcaneAgent", "gcd">>) = {}
    /\ Len(results_file.rows) = 5

====
